---- MODULE Spec2Model ----
(***************************************************************************)
(* A model of cis_parser.py: the pipeline of parse_cis_benchmark and the   *)
(* regular-expression searches of parse_table_of_contents and              *)
(* extract_cis_details.                                                    *)
(*                                                                         *)
(* A text is a sequence of symbols.  A symbol is one character ("1", "2",  *)
(* ".", "a" for a letter, "SP" for a blank, "NL" for a line feed) or one   *)
(* of the literals the patterns of the source anchor on, taken as a whole  *)
(* ("Table of Contents", "Appendix", "Audit:", ...).  Every search below   *)
(* is written position by position, the way the pattern of the source      *)
(* matches: greedy \s* and \d+ runs, lazy captures ending at the first     *)
(* position where the lookahead holds, leftmost start first.               *)
(***************************************************************************)
EXTENDS Integers, Sequences, FiniteSets, TLC

VARIABLES
    pc,             \* the statement the run is at
    pdf,            \* the input: the text of each page of the PDF, in order
    full_text,      \* parse_cis_benchmark: full_text
    toc,            \* parse_cis_benchmark: toc
    section_index,  \* the outer loop's index
    i,              \* the inner loop's index
    next_control,   \* parse_cis_benchmark: next_control (<<>> is None)
    expanded,       \* parse_cis_benchmark: expanded
    files,          \* the JSON arrays written to the output folder, in order
    cis_id,         \* extract_cis_details: cis_id
    next_id,        \* extract_cis_details: next_id (<<>> is None)
    details_text,   \* extract_cis_details: <<details_text>>, <<>> before line 65
    details,        \* extract_cis_details: the dict it returns
    record          \* {**control, **details} of that call

vars == <<pc, pdf, full_text, toc, section_index, i, next_control, expanded,
          files, cis_id, next_id, details_text, details, record>>

-----------------------------------------------------------------------------
(* Characters and classes                                                  *)

\* \s of the patterns, and the characters str.strip() removes
WS == {"NL", "SP"}

\* \d of the patterns
Digit == {"1", "2"}

\* the literals "Table of Contents" and "Appendix"
TocAnchor == "Table of Contents"

AppendixAnchor == "Appendix"

Min(S) == CHOOSE x \in S : \A y \in S : x <= y

Max(S) == CHOOSE x \in S : \A y \in S : x >= y

\* the text t from position p to its end
From(t, p) == SubSeq(t, p, Len(t))

\* the literal lit stands in t at position p
StartsWith(t, p, lit) ==
    /\ p >= 1
    /\ p + Len(lit) - 1 <= Len(t)
    /\ \A k \in 1..Len(lit) : t[p + k - 1] = lit[k]

\* greedy \s* from position p: the first position that holds no whitespace
RECURSIVE SkipWs(_, _)
SkipWs(t, p) ==
    IF p <= Len(t) /\ t[p] \in WS THEN SkipWs(t, p + 1) ELSE p

\* greedy \d* from position p
RECURSIVE SkipDigits(_, _)
SkipDigits(t, p) ==
    IF p <= Len(t) /\ t[p] \in Digit THEN SkipDigits(t, p + 1) ELSE p

\* str.strip()
RECURSIVE LStrip(_)
LStrip(t) == IF t # <<>> /\ Head(t) \in WS THEN LStrip(Tail(t)) ELSE t

RECURSIVE RStrip(_)
RStrip(t) ==
    IF t # <<>> /\ t[Len(t)] \in WS THEN RStrip(SubSeq(t, 1, Len(t) - 1)) ELSE t

Strip(t) == RStrip(LStrip(t))

-----------------------------------------------------------------------------
(* parse_table_of_contents                                                 *)

\* (?=\n\s*Appendix) at position q
LookaheadAppendix(t, q) ==
    /\ q <= Len(t)
    /\ t[q] = "NL"
    /\ LET r == SkipWs(t, q + 1) IN r <= Len(t) /\ t[r] = AppendixAnchor

\* Table of Contents\s*(.*?)(?=\n\s*Appendix) tried at start s: <<the span of
\* group 1>>, or <<>> when the pattern does not match there.  \s* is greedy
\* and gives back one character at a time; (.*?) ends at the first lookahead
\* position.
TocMatchAt(t, s) ==
    IF ~(s <= Len(t) /\ t[s] = TocAnchor) THEN <<>>
    ELSE LET hi == SkipWs(t, s + 1)
             starts == {a \in (s + 1)..hi :
                          \E q \in a..Len(t) : LookaheadAppendix(t, q)}
         IN IF starts = {} THEN <<>>
            ELSE LET a == Max(starts)
                     q == Min({r \in a..Len(t) : LookaheadAppendix(t, r)})
                 IN <<[first |-> a, last |-> q - 1]>>

\* re.search of the pattern: the leftmost start where it matches
TocSearch(t) ==
    LET starts == {s \in 1..Len(t) : TocMatchAt(t, s) # <<>>}
    IN IF starts = {} THEN <<>> ELSE TocMatchAt(t, Min(starts))

\* (\.\d+){1,3}, greedy: the position after at most k more groups from c
RECURSIVE DotGroups(_, _, _)
DotGroups(t, c, k) ==
    IF k > 0 /\ c + 1 <= Len(t) /\ t[c] = "." /\ t[c + 1] \in Digit
    THEN DotGroups(t, SkipDigits(t, c + 1), k - 1)
    ELSE c

\* the upper number of groups of (\.\d+){1,3}
MaxDotGroups == 3

\* ^\s*(?P<cisnum>\d+(\.\d+){1,3})\s+(?P<title>[\s\S]*?(?=\.)) tried at start
\* s, re.MULTILINE: <<[cisnum, title, end]>> or <<>>
EntryMatchAt(t, s) ==
    IF ~(s = 1 \/ (s <= Len(t) + 1 /\ s > 1 /\ t[s - 1] = "NL")) THEN <<>>
    ELSE LET a == SkipWs(t, s)
             b == SkipDigits(t, a)
             c == DotGroups(t, b, MaxDotGroups)
             d == SkipWs(t, c)
             dots == {e \in d..Len(t) : t[e] = "."}
         IN IF b > a /\ c > b /\ d > c /\ dots # {}
            THEN <<[cisnum |-> SubSeq(t, a, c - 1),
                    title |-> SubSeq(t, d, Min(dots) - 1),
                    end |-> Min(dots)]>>
            ELSE <<>>

\* pattern.finditer(toc_text) from position pos: the matches, left to right,
\* each search resuming where the match before it ended
RECURSIVE FindIter(_, _)
FindIter(t, pos) ==
    LET starts == {s \in pos..Len(t) : EntryMatchAt(t, s) # <<>>}
    IN IF starts = {} THEN <<>>
       ELSE LET m == EntryMatchAt(t, Min(starts))[1]
            IN <<m>> \o FindIter(t, m.end)

\* control_id.split('.')[0]
RECURSIVE Category(_)
Category(id) ==
    IF id = <<>> \/ Head(id) = "." THEN <<>> ELSE <<Head(id)>> \o Category(Tail(id))

\* a variant of SetDefaultAppend: a new category is put before the others
SetDefaultAppend_NewFirst(d, category, entry) ==
    IF \E k \in 1..Len(d) : d[k].category = category
    THEN [k \in 1..Len(d) |->
            IF d[k].category = category
            THEN [d[k] EXCEPT !.controls = Append(@, entry)]
            ELSE d[k]]
    ELSE <<[category |-> category, controls |-> <<entry>>]>> \o d

\* toc.setdefault(category, []).append(entry); a dict keeps its keys in the
\* order of their insertion, so toc is the sequence of its items
SetDefaultAppend(d, category, entry) ==
    IF \E k \in 1..Len(d) : d[k].category = category
    THEN [k \in 1..Len(d) |->
            IF d[k].category = category
            THEN [d[k] EXCEPT !.controls = Append(@, entry)]
            ELSE d[k]]
    ELSE Append(d, [category |-> category, controls |-> <<entry>>])

\* the loop over pattern.finditer(toc_text)
RECURSIVE BuildToc(_, _)
BuildToc(ms, d) ==
    IF ms = <<>> THEN d
    ELSE LET control_id == Strip(Head(ms).cisnum)
         IN BuildToc(Tail(ms),
                     SetDefaultAppend(d, Category(control_id),
                                      [id |-> control_id,
                                       title |-> Strip(Head(ms).title)]))

ParseTableOfContents(text) ==
    LET match == TocSearch(text)
    IN IF match = <<>> THEN <<>>
       ELSE LET toc_text == SubSeq(text, match[1].first, match[1].last)
            IN BuildToc(FindIter(toc_text, 1), <<>>)

-----------------------------------------------------------------------------
(* extract_cis_details                                                     *)

\* DEFAULT_SECTIONS, in the order of the dict.  Each pattern is
\*   <label>\s*(.*?)(?=\n\s*<first>|<other>|...|$)
\* where \n\s* belongs to the first alternative alone: after_nl is the label
\* of the first alternative, bare the labels of the others.
DEFAULT_SECTIONS ==
    << [key |-> "profile", label |-> "Profile Applicability:",
        after_nl |-> "Description:", bare |-> {"Rationale:", "Impact:", "Audit:"}],
       [key |-> "description", label |-> "Description:",
        after_nl |-> "Rationale:", bare |-> {"Impact:", "Audit:"}],
       [key |-> "rationale", label |-> "Rationale:",
        after_nl |-> "Impact:", bare |-> {"Audit:"}],
       [key |-> "impact", label |-> "Impact:",
        after_nl |-> "Audit:", bare |-> {"Remediation:"}],
       [key |-> "audit", label |-> "Audit:",
        after_nl |-> "Remediation:", bare |-> {}],
       [key |-> "remediation", label |-> "Remediation:",
        after_nl |-> "Default Value:", bare |-> {}],
       [key |-> "default_value", label |-> "Default Value:",
        after_nl |-> "References:", bare |-> {}],
       [key |-> "references", label |-> "References:",
        after_nl |-> "CIS Controls:", bare |-> {}] >>

\* Appendix\s*(.*) with re.DOTALL: <<group 1>>, the text after the first
\* "Appendix" of the whole text and the whitespace behind it, or <<>>
AppendixSearch(text) ==
    LET starts == {s \in 1..Len(text) : text[s] = AppendixAnchor}
    IN IF starts = {} THEN <<>>
       ELSE <<From(text, SkipWs(text, Min(starts) + 1))>>

\* a variant of LookaheadNext: the next ID ends the window wherever it stands
LookaheadNext_AnyPlace(t, p, nid) ==
    \/ p = Len(t) + 1
    \/ nid # <<>> /\ StartsWith(t, p, nid)

\* (?=\n<next_id>|\Z) at position p; with no next ID the pattern is (?=\Z)
LookaheadNext(t, p, nid) ==
    \/ p = Len(t) + 1
    \/ nid # <<>> /\ p <= Len(t) /\ t[p] = "NL" /\ StartsWith(t, p + 1, nid)

\* re.search of (<cis_id>.*?)(?=\n<next_id>|\Z) in the appendix: <<group 1>>
\* or <<>>.  next_id is <<>> for None (and for "", which `if next_id` treats
\* the same way).
WindowSearch(appendix, id, nid) ==
    LET starts == {s \in 1..Len(appendix) : StartsWith(appendix, s, id)}
    IN IF starts = {} THEN <<>>
       ELSE LET s == Min(starts)
                e == Min({p \in (s + Len(id))..(Len(appendix) + 1) :
                            LookaheadNext(appendix, p, nid)})
            IN <<SubSeq(appendix, s, e - 1)>>

\* lines 52-65: details_text, <<the window>> or <<>> when the function
\* returns {} before it reaches the sections
DetailsText(id, text, nid) ==
    LET appendix_match == AppendixSearch(text)
    IN IF appendix_match = <<>> THEN <<>>
       ELSE WindowSearch(appendix_match[1], id, nid)

\* the lookahead of a section pattern at position q; $ without re.MULTILINE
\* holds at the end of the text and before a line feed that ends it
LookaheadSection(w, q, sec) ==
    \/ q = Len(w) + 1
    \/ q = Len(w) /\ w[q] = "NL"
    \/ /\ q <= Len(w)
       /\ w[q] = "NL"
       /\ LET r == SkipWs(w, q + 1) IN r <= Len(w) /\ w[r] = sec.after_nl
    \/ q <= Len(w) /\ w[q] \in sec.bare

\* a variant of SectionSearch: the lookahead has no $ alternative
SectionSearch_NoEnd(w, sec) ==
    LET starts == {s \in 1..Len(w) : w[s] = sec.label}
    IN IF starts = {} THEN <<>>
       ELSE LET a == SkipWs(w, Min(starts) + 1)
                ends == {r \in a..Len(w) : LookaheadSection(w, r, sec)}
            IN IF ends = {} THEN <<>> ELSE <<SubSeq(w, a, Min(ends) - 1)>>

\* re.search(regex, details_text, re.DOTALL): <<group 1>> or <<>>
SectionSearch(w, sec) ==
    LET starts == {s \in 1..Len(w) : w[s] = sec.label}
    IN IF starts = {} THEN <<>>
       ELSE LET a == SkipWs(w, Min(starts) + 1)
                q == Min({r \in a..(Len(w) + 1) : LookaheadSection(w, r, sec)})
            IN <<SubSeq(w, a, q - 1)>>

\* the loop of lines 66-71: parsed[key] = match.group(1).strip()
ParseSections(w, sections) ==
    LET found == {k \in 1..Len(sections) : SectionSearch(w, sections[k]) # <<>>}
        idx(key) == CHOOSE k \in found : sections[k].key = key
    IN [key \in {sections[k].key : k \in found} |->
          Strip(SectionSearch(w, sections[idx(key)])[1])]

\* the empty dict {}
EmptyDict == [key \in {} |-> <<>>]

ExtractCisDetails(id, text, nid, sections) ==
    LET w == DetailsText(id, text, nid)
    IN IF w = <<>> THEN EmptyDict ELSE ParseSections(w[1], sections)

\* a variant of Merge: the entry's fields are left out
Merge_DetailsOnly(c, d) == d

\* {**control, **details}
Merge(c, d) ==
    [key \in DOMAIN c \cup DOMAIN d |-> IF key \in DOMAIN d THEN d[key] ELSE c[key]]

-----------------------------------------------------------------------------
(* extract_text_from_pdf                                                   *)

\* "\n".join(page.extract_text() or "" for page in pdf.pages); a page with no
\* text is <<>>
RECURSIVE JoinPages(_)
JoinPages(pages) ==
    IF pages = <<>> THEN <<>>
    ELSE IF Len(pages) = 1 THEN pages[1]
    ELSE pages[1] \o <<"NL">> \o JoinPages(Tail(pages))

-----------------------------------------------------------------------------
(* The documents of the pipeline                                           *)

\* the largest number of lines of a table of contents
MaxTocLines == 3

ID11 == <<"1", ".", "1">>

ID12 == <<"1", ".", "2">>

ID21 == <<"2", ".", "1">>

ID22 == <<"2", ".", "2">>

\* lines of a table of contents: "<id> a." for four controls of two
\* categories, and a line whose title has no leader dots
PipelineTocLines ==
    {id \o <<"SP", "a", ".">> : id \in {ID11, ID12, ID21, ID22}}
        \cup {ID12 \o <<"SP", "a">>}

\* the sequences of at most n elements of S
RECURSIVE SeqsUpTo(_, _)
SeqsUpTo(S, n) ==
    IF n = 0 THEN {<<>>}
    ELSE LET shorter == SeqsUpTo(S, n - 1)
         IN shorter \cup {Append(q, x) : q \in {r \in shorter : Len(r) = n - 1}, x \in S}

\* the chunks one after the other
RECURSIVE Concat(_)
Concat(chunks) ==
    IF chunks = <<>> THEN <<>> ELSE Head(chunks) \o Concat(Tail(chunks))

\* the lines, each on a line of its own
RECURSIVE OnLines(_)
OnLines(lines) ==
    IF lines = <<>> THEN <<>> ELSE <<"NL">> \o Head(lines) \o OnLines(Tail(lines))

\* the detail text of the controls, as it follows the "Appendix" heading
PipelineBody ==
    OnLines(<< ID11 \o <<"SP", "a">>, <<"Audit:", "SP", "a">>,
               ID12 \o <<"SP", "a">>, <<"Remediation:", "SP", "a">>,
               <<"References:", "SP", "a">>,
               ID21 \o <<"SP", "a">>, <<"Description:", "SP", "a">> >>)

\* the page(s) before the table of contents: none, a page with no text, a page
\* that mentions the appendix
FrontPages == {<<>>, << <<>> >>, << <<"a", "SP", "Appendix">> >>}

\* the main page: a table of contents (or none), the "Appendix" heading on a
\* line of its own, inside a line, or missing, and the detail text (or none)
MainPages ==
    {tocpart \o app \o body :
        tocpart \in {<<>>} \cup {<<TocAnchor>> \o OnLines(ls) :
                                    ls \in SeqsUpTo(PipelineTocLines, MaxTocLines)},
        app \in {<<>>, <<"NL", "Appendix">>, <<"SP", "Appendix">>},
        body \in {<<>>, PipelineBody}}

PipelinePdfs == {front \o <<main>> : front \in FrontPages, main \in MainPages}

-----------------------------------------------------------------------------
(* parse_cis_benchmark                                                     *)

\* the control the loops are at
Controls == toc[section_index + 1].controls

Control == Controls[i + 1]

\* the values of the variables of extract_cis_details while no specification
\* of it runs
IdleCall ==
    /\ cis_id = <<>>
    /\ next_id = <<>>
    /\ details_text = <<>>
    /\ details = <<>>
    /\ record = <<>>

Init ==
    /\ pc = "extract_text"
    /\ pdf \in PipelinePdfs
    /\ full_text = <<>>
    /\ toc = <<>>
    /\ section_index = 0
    /\ i = 0
    /\ next_control = <<>>
    /\ expanded = <<>>
    /\ files = <<>>
    /\ IdleCall

\* line 82, the PDF opens
ExtractTextFromPdf ==
    /\ pc = "extract_text"
    /\ full_text' = JoinPages(pdf)
    /\ pc' = "parse_toc"
    /\ UNCHANGED <<pdf, toc, section_index, i, next_control, expanded, files,
                   cis_id, next_id, details_text, details, record>>

\* line 82, pdfplumber.open raises (no file, no PDF): nothing catches it
ExtractTextRaises ==
    /\ pc = "extract_text"
    /\ pc' = "raised"
    /\ UNCHANGED <<pdf, full_text, toc, section_index, i, next_control, expanded,
                   files, cis_id, next_id, details_text, details, record>>

\* a variant of ParseToc: no return on an empty toc
ParseToc_NoReturn ==
    /\ pc = "parse_toc"
    /\ toc' = ParseTableOfContents(full_text)
    /\ pc' = IF toc' = <<>> THEN "save_json" ELSE "next_control"
    /\ UNCHANGED <<pdf, full_text, section_index, i, next_control, expanded, files,
                   cis_id, next_id, details_text, details, record>>

\* lines 83-88: parse, return on an empty toc, else enter the loops
ParseToc ==
    /\ pc = "parse_toc"
    /\ toc' = ParseTableOfContents(full_text)
    /\ pc' = IF toc' = <<>> THEN "done" ELSE "next_control"
    /\ UNCHANGED <<pdf, full_text, section_index, i, next_control, expanded, files,
                   cis_id, next_id, details_text, details, record>>

\* a variant of NextControl: the branch of line 96 is left out
NextControl_SameCategoryOnly ==
    /\ pc = "next_control"
    /\ next_control' = IF i + 1 < Len(Controls) THEN Controls[i + 2].id ELSE <<>>
    /\ pc' = "extract_details"
    /\ UNCHANGED <<pdf, full_text, toc, section_index, i, expanded, files,
                   cis_id, next_id, details_text, details, record>>

\* lines 93-99
NextControl ==
    /\ pc = "next_control"
    /\ next_control' =
         IF i + 1 < Len(Controls) THEN Controls[i + 2].id
         ELSE IF section_index + 1 < Len(toc)
              THEN LET next_controls == toc[section_index + 2].controls
                   IN IF next_controls # <<>> THEN next_controls[1].id ELSE <<>>
              ELSE <<>>
    /\ pc' = "extract_details"
    /\ UNCHANGED <<pdf, full_text, toc, section_index, i, expanded, files,
                   cis_id, next_id, details_text, details, record>>

\* a variant of ExtractAppend: save_json is called inside the loops
ExtractAppend_SaveInLoop ==
    /\ pc = "extract_details"
    /\ expanded' = Append(expanded,
                          Merge(Control,
                                ExtractCisDetails(Control.id, full_text,
                                                  next_control, DEFAULT_SECTIONS)))
    /\ files' = Append(files, expanded')
    /\ IF i + 1 < Len(Controls)
       THEN /\ i' = i + 1
            /\ section_index' = section_index
            /\ pc' = "next_control"
       ELSE /\ i' = 0
            /\ section_index' = section_index + 1
            /\ pc' = IF section_index + 1 < Len(toc) THEN "next_control"
                     ELSE "save_json"
    /\ UNCHANGED <<pdf, full_text, toc, next_control,
                   cis_id, next_id, details_text, details, record>>

\* lines 101-102, and the step of the loops of lines 90-91
ExtractAppend ==
    /\ pc = "extract_details"
    /\ expanded' = Append(expanded,
                          Merge(Control,
                                ExtractCisDetails(Control.id, full_text,
                                                  next_control, DEFAULT_SECTIONS)))
    /\ IF i + 1 < Len(Controls)
       THEN /\ i' = i + 1
            /\ section_index' = section_index
            /\ pc' = "next_control"
       ELSE /\ i' = 0
            /\ section_index' = section_index + 1
            /\ pc' = IF section_index + 1 < Len(toc) THEN "next_control"
                     ELSE "save_json"
    /\ UNCHANGED <<pdf, full_text, toc, next_control, files,
                   cis_id, next_id, details_text, details, record>>

\* lines 104-106, the file opens: one JSON array is written
SaveJson ==
    /\ pc = "save_json"
    /\ files' = Append(files, expanded)
    /\ pc' = "done"
    /\ UNCHANGED <<pdf, full_text, toc, section_index, i, next_control, expanded,
                   cis_id, next_id, details_text, details, record>>

\* line 75, open(path, 'w') raises (no such folder): nothing is written
SaveJsonRaises ==
    /\ pc = "save_json"
    /\ pc' = "raised"
    /\ UNCHANGED <<pdf, full_text, toc, section_index, i, next_control, expanded,
                   files, cis_id, next_id, details_text, details, record>>

Next ==
    \/ ExtractTextFromPdf
    \/ ExtractTextRaises
    \/ ParseToc
    \/ NextControl
    \/ ExtractAppend
    \/ SaveJson
    \/ SaveJsonRaises

Spec == Init /\ [][Next]_vars

-----------------------------------------------------------------------------
(* The pipeline's properties                                               *)

\* the controls of a toc, one category after the other
RECURSIVE Flat(_)
Flat(d) == IF d = <<>> THEN <<>> ELSE Head(d).controls \o Flat(Tail(d))

\* the keys of the sections
SectionKeys == {DEFAULT_SECTIONS[k].key : k \in 1..Len(DEFAULT_SECTIONS)}

\* C1: the next ID handed to extract_cis_details is the following control's ID
\* of the same category; for the last control of a category that is not the
\* last, the first control's ID of the next category; and none exactly for
\* the last control of the last category.  So a control has no next ID exactly
\* when it is the last of all, and otherwise its next ID is the ID of the
\* control that follows it in the order category by category.
C1_NextIdRule ==
    pc = "extract_details" =>
        LET last_in_category == i + 1 = Len(Controls)
            last_category == section_index + 1 = Len(toc)
            done == Len(expanded)
        IN /\ \A k \in 1..Len(toc) : toc[k].controls # <<>>
           /\ ~last_in_category => next_control = Controls[i + 2].id
           /\ last_in_category /\ ~last_category
                => next_control = toc[section_index + 2].controls[1].id
           /\ last_in_category /\ last_category => next_control = <<>>
           /\ (next_control = <<>>) <=> (done + 1 = Len(Flat(toc)))
           /\ done + 1 < Len(Flat(toc)) => next_control = Flat(toc)[done + 2].id

\* C1's case: the last control of a category that is not the last one
C1_Witness ==
    /\ pc = "extract_details"
    /\ i + 1 = Len(Controls)
    /\ section_index + 1 < Len(toc)
    /\ next_control = toc[section_index + 2].controls[1].id
    /\ i > 0

\* the records agree, one by one, with the entries on id and title, and hold
\* no key but id, title and section keys
C2_Agree(records, entries) ==
    \A k \in 1..Len(records) :
        /\ k <= Len(entries)
        /\ {"id", "title"} \subseteq DOMAIN records[k]
        /\ DOMAIN records[k] \subseteq {"id", "title"} \cup SectionKeys
        /\ records[k].id = entries[k].id
        /\ records[k].title = entries[k].title

\* C2: every entry of the table of contents is in the record list handed to
\* save_json exactly once, at its own place, with its id and title unchanged;
\* the list holds as many records as the table of contents has entries.
C2_RoundTrip ==
    /\ C2_Agree(expanded, Flat(toc))
    /\ \A f \in 1..Len(files) :
          /\ Len(files[f]) = Len(Flat(toc))
          /\ C2_Agree(files[f], Flat(toc))

\* C2's case: a file with several records, one of them with detail keys
C2_Witness ==
    /\ files # <<>>
    /\ Len(files[1]) >= 2
    /\ \E k \in 1..Len(files[1]) : DOMAIN files[1][k] # {"id", "title"}
    /\ \E k \in 1..Len(files[1]) : DOMAIN files[1][k] = {"id", "title"}

\* the entries of the sequence es category by category, cats[k] being the
\* category of es[k]: the categories in the order of their first appearance,
\* each category in the order of es
C3_Grouped(es, cats) ==
    LET first_seen(k) == Min({j \in 1..Len(es) : cats[j] = cats[k]})
        place(k) == Cardinality({j \in 1..Len(es) :
                        \/ first_seen(j) < first_seen(k)
                        \/ first_seen(j) = first_seen(k) /\ j <= k})
    IN [p \in 1..Len(es) |-> es[CHOOSE k \in 1..Len(es) : place(k) = p]]

\* the entries of the table of contents of a text, in the order of their lines
C3_TocEntries(text) ==
    LET match == TocSearch(text)
    IN IF match = <<>> THEN <<>>
       ELSE LET ms == FindIter(SubSeq(text, match[1].first, match[1].last), 1)
            IN [k \in 1..Len(ms) |->
                  [id |-> Strip(ms[k].cisnum), title |-> Strip(ms[k].title)]]

\* C3: the output array is the entries of the table of contents ordered by
\* category, the categories in the order of their first appearance, and within
\* a category in the order of the lines, whatever the order of the lines.
C3_OutputOrder ==
    \A f \in 1..Len(files) :
        LET es == C3_TocEntries(full_text)
            cats == [k \in 1..Len(es) |-> Category(es[k].id)]
            out == files[f]
        IN /\ Len(out) = Len(es)
           /\ [k \in 1..Len(out) |-> [id |-> out[k].id, title |-> out[k].title]]
                 = C3_Grouped(es, cats)

\* C3's case: lines of two categories interleaved, IDs out of numeric order
C3_Witness ==
    /\ files # <<>>
    /\ LET es == C3_TocEntries(full_text)
       IN /\ Len(es) = 3
          /\ es[1].id = ID21 /\ es[2].id = ID12 /\ es[3].id = ID22
          /\ files[1][2].id = ID22

\* no "Table of Contents" anchor, or no "Appendix" anchor after it
C4_NoAnchors(text) ==
    ~ \E s \in 1..Len(text), q \in 1..Len(text) :
         s < q /\ text[s] = TocAnchor /\ text[q] = AppendixAnchor

\* C4: on a text with no "Table of Contents" anchor, or with no "Appendix"
\* anchor after it, parse_table_of_contents returns the empty mapping and the
\* run ends with no call of save_json: no file is written.
C4_NoAnchorsNoOutput ==
    (pc \notin {"extract_text", "parse_toc"} /\ C4_NoAnchors(full_text)) =>
        /\ toc = <<>>
        /\ expanded = <<>>
        /\ files = <<>>
        /\ pc \in {"done", "raised"}
        /\ pc = "raised" => full_text = <<>>

\* C4's case: a table of contents with entry lines and no "Appendix" after it
C4_Witness ==
    /\ pc = "done"
    /\ C4_NoAnchors(full_text)
    /\ \E s \in 1..Len(full_text) : full_text[s] = TocAnchor
    /\ StartsWith(full_text, 2, <<"NL">> \o ID11)
    /\ files = <<>>

\* C9: the file is written at most once, and only after the text was
\* extracted, a non-empty table of contents was parsed and the record of every
\* control was assembled; records are assembled only after the parse, the
\* parse runs only after the extraction; a run that raises writes nothing,
\* and a run that ends after a non-empty parse has written exactly one file.
C9_StageOrder ==
    /\ Len(files) <= 1
    /\ files # <<>> =>
          /\ pc = "done"
          /\ full_text = JoinPages(pdf)
          /\ toc # <<>>
          /\ Len(expanded) = Len(Flat(toc))
          /\ files[1] = expanded
    /\ pc = "save_json" => Len(expanded) = Len(Flat(toc)) /\ toc # <<>>
    /\ expanded # <<>> => toc # <<>> /\ Len(expanded) <= Len(Flat(toc))
    /\ toc # <<>> => pc \notin {"extract_text", "parse_toc"}
    /\ pc = "extract_text" => full_text = <<>>
    /\ pc = "raised" => files = <<>>
    /\ pc = "done" /\ toc # <<>> => Len(files) = 1
    /\ pc = "done" /\ toc = <<>> => files = <<>>

\* C9's case: a run that ended with one file of several records
C9_Witness ==
    /\ pc = "done"
    /\ Len(files) = 1
    /\ Len(files[1]) = 3

\* the place of the first "Appendix" of the text
C10_FirstAppendix(text) == Min({s \in 1..Len(text) : text[s] = AppendixAnchor})

\* C10: when the text has a TOC region, the appendix region that
\* extract_cis_details searches starts at the "Appendix" anchor that ends the
\* TOC region, so the window of the control it is called for does not start
\* in the TOC region or before it.
C10_AppendixFollowsToc ==
    (pc = "extract_details" /\ TocSearch(full_text) # <<>>) =>
        LET region == TocSearch(full_text)[1]
            \* the lookahead (?=\n\s*Appendix) holds right after the region
            anchor == SkipWs(full_text, region.last + 2)
            first == C10_FirstAppendix(full_text)
            appendix_start == SkipWs(full_text, first + 1)
            appendix == From(full_text, appendix_start)
        IN /\ first = anchor
           /\ \A s \in 1..Len(appendix) :
                 (/\ StartsWith(appendix, s, Control.id)
                  /\ \A r \in 1..(s - 1) : ~StartsWith(appendix, r, Control.id))
                 => appendix_start + s - 1 > region.last

-----------------------------------------------------------------------------
(* parse_table_of_contents on tables of contents of many kinds of lines    *)

ID111 == <<"1", ".", "1", ".", "1">>

ID1111 == <<"1", ".", "1", ".", "1", ".", "1">>

ID11111 == <<"1", ".", "1", ".", "1", ".", "1", ".", "1">>

\* lines with an identifier of 1 to 5 components, a line with no leader dots,
\* an indented line, a line with its identifier not at its start
TocLineKinds ==
    {id \o <<"SP", "a", ".">> : id \in {<<"1">>, ID11, ID111, ID1111, ID11111}}
        \cup {ID12 \o <<"SP", "a">>,
              <<"SP">> \o ID21 \o <<"SP", "a", ".">>,
              <<"a", "SP">> \o ID22 \o <<"SP", "a", ".">>}

TocTexts ==
    {<<TocAnchor>> \o OnLines(ls) \o <<"NL", AppendixAnchor>> :
        ls \in SeqsUpTo(TocLineKinds, MaxTocLines)}

InitToc ==
    /\ pc = "call_parse_toc"
    /\ pdf = <<>>
    /\ full_text \in TocTexts
    /\ toc = <<>>
    /\ section_index = 0
    /\ i = 0
    /\ next_control = <<>>
    /\ expanded = <<>>
    /\ files = <<>>
    /\ IdleCall

\* toc = parse_table_of_contents(full_text)
CallParseToc ==
    /\ pc = "call_parse_toc"
    /\ toc' = ParseTableOfContents(full_text)
    /\ pc' = "returned"
    /\ UNCHANGED <<pdf, full_text, section_index, i, next_control, expanded, files,
                   cis_id, next_id, details_text, details, record>>

NextToc == CallParseToc

SpecToc == InitToc /\ [][NextToc]_vars

-----------------------------------------------------------------------------
(* extract_cis_details on appendix texts of many shapes                    *)

\* the largest number of chunks of an appendix text
MaxChunks == 3

\* the labels of the eight sections
Labels == {DEFAULT_SECTIONS[k].label : k \in 1..Len(DEFAULT_SECTIONS)}

\* the pieces of an appendix text: the heading line of a control, a mention of
\* a control inside a line, a section on a line of its own, a section label
\* inside a line
DetailChunks ==
    {<<"NL">> \o ID11 \o <<"SP", "a">>,
     <<"NL">> \o ID12 \o <<"SP", "a">>,
     <<"SP">> \o ID12,
     <<"SP", "Impact:", "SP", "a">>}
        \cup {<<"NL", label, "SP", "a">> : label \in Labels \cup {"CIS Controls:"}}

DetailTexts ==
    {head \o Concat(chunks) :
        head \in {<<>>, <<AppendixAnchor>>},
        chunks \in SeqsUpTo(DetailChunks, MaxChunks)}

InitDetails ==
    /\ pc = "call_extract_details"
    /\ pdf = <<>>
    /\ full_text \in DetailTexts
    /\ toc = <<>>
    /\ section_index = 0
    /\ i = 0
    /\ next_control = <<>>
    /\ expanded = <<>>
    /\ files = <<>>
    /\ \E call \in {<<ID11, ID12>>, <<ID11, <<>> >>, <<ID12, ID11>>, <<ID12, <<>> >>} :
          /\ cis_id = call[1]
          /\ next_id = call[2]
    /\ details_text = <<>>
    /\ details = <<>>
    /\ record = <<>>

\* lines 101-102 for the control cis_id: details = extract_cis_details(...),
\* then {**control, **details}
CallExtractCisDetails ==
    /\ pc = "call_extract_details"
    /\ details_text' = DetailsText(cis_id, full_text, next_id)
    /\ details' = ExtractCisDetails(cis_id, full_text, next_id, DEFAULT_SECTIONS)
    /\ record' = Merge([id |-> cis_id, title |-> <<"a">>], details')
    /\ pc' = "returned"
    /\ UNCHANGED <<pdf, full_text, toc, section_index, i, next_control, expanded,
                   files, cis_id, next_id>>

NextDetails == CallExtractCisDetails

SpecDetails == InitDetails /\ [][NextDetails]_vars

-----------------------------------------------------------------------------
(* The properties of parse_table_of_contents                               *)

\* the places of the region t where a line starts
C5_LineStarts(t) ==
    {p \in 1..Len(t) : p = 1 \/ t[p - 1] = "NL"}

\* the run of digits and dots that the line starting at p begins with (blanks
\* before it let pass)
C5_IdRun(t, p) ==
    LET a == Min({q \in p..(Len(t) + 1) : q = Len(t) + 1 \/ t[q] # "SP"})
        stops == {q \in a..Len(t) : t[q] \notin Digit \cup {"."}}
    IN [first |-> a, last |-> IF stops = {} THEN Len(t) ELSE Min(stops) - 1]

\* the line starting at p begins with an identifier of 2 to 4 dot-separated
\* integers, followed by whitespace and a title, which the next period of the
\* region ends (on this line or, for a title that runs on, on a later one)
C5_EntryLine(t, p) ==
    LET r == C5_IdRun(t, p)
        dots == {q \in r.first..r.last : t[q] = "."}
    IN /\ r.first <= r.last
       /\ t[r.first] \in Digit /\ t[r.last] \in Digit
       /\ \A q \in dots : q + 1 \notin dots
       /\ Cardinality(dots) + 1 \in 2..4
       /\ r.last + 1 <= Len(t) /\ t[r.last + 1] \in WS
       /\ \E q \in SkipWs(t, r.last + 1)..Len(t) : t[q] = "."

\* the k-th smallest element of a set of numbers
RECURSIVE C5_Nth(_, _)
C5_Nth(S, k) == IF k = 1 THEN Min(S) ELSE C5_Nth(S \ {Min(S)}, k - 1)

\* the identifiers of the entry lines of the TOC region, in their order
C5_LineIds(text) ==
    LET region == TocSearch(text)[1]
        t == SubSeq(text, region.first, region.last)
        starts == {p \in C5_LineStarts(t) : C5_EntryLine(t, p)}
    IN [k \in 1..Cardinality(starts) |->
          LET r == C5_IdRun(t, C5_Nth(starts, k)) IN SubSeq(t, r.first, r.last)]

\* C5: in the TOC region every line that begins with an identifier of 2 to 4
\* components followed by whitespace and a title (which the next period
\* ends) is one entry: there are as
\* many entries as such lines, the entries' ids are the lines' identifiers
\* (category by category), and no other line (1 component, 5 or more) gives
\* an entry.
C5_OneEntryPerLine ==
    (pc = "returned" /\ TocSearch(full_text) # <<>>) =>
        LET ids == C5_LineIds(full_text)
            entries == Flat(toc)
        IN /\ Len(entries) = Len(ids)
           /\ [k \in 1..Len(entries) |-> entries[k].id] = C3_Grouped(ids, [k \in 1..Len(ids) |-> Category(ids[k])])

-----------------------------------------------------------------------------
(* The properties of extract_cis_details                                   *)

\* the appendix region: the text behind the first "Appendix" and the
\* whitespace after it
C6_Appendix(text) ==
    LET first == Min({s \in 1..Len(text) : text[s] = AppendixAnchor})
    IN From(text, SkipWs(text, first + 1))

\* the literal lit stands somewhere in t
C6_Occurs(t, lit) == \E s \in 1..Len(t) : StartsWith(t, s, lit)

\* C6 as amended: the window starts at the first literal occurrence of the
\* control's ID in the appendix region and ends right before the first line
\* feed after that ID that is followed at once by the next ID; with no next ID
\* or no such line feed it runs to the end of the region.  A window holds no
\* line feed followed at once by the next ID; there is no window exactly when
\* the text has no "Appendix" or the region does not hold the ID.
C6_WindowToNextIdLine ==
    pc = "returned" =>
        LET has_region == \E s \in 1..Len(full_text) : full_text[s] = AppendixAnchor
            region == C6_Appendix(full_text)
        IN /\ (details_text = <<>>) <=> ~(has_region /\ C6_Occurs(region, cis_id))
           /\ details_text # <<>> =>
                LET w == details_text[1]
                    s == Min({r \in 1..Len(region) : StartsWith(region, r, cis_id)})
                    e == s + Len(w)
                    ends(p) == /\ next_id # <<>>
                               /\ p <= Len(region)
                               /\ region[p] = "NL"
                               /\ StartsWith(region, p + 1, next_id)
                IN /\ Len(w) >= Len(cis_id)
                   /\ w = SubSeq(region, s, e - 1)
                   /\ e = Len(region) + 1 \/ ends(e)
                   /\ \A p \in (s + Len(cis_id))..(e - 1) : ~ends(p)
                   /\ next_id # <<>> =>
                        \A p \in 1..Len(w) :
                            ~(w[p] = "NL" /\ StartsWith(w, p + 1, next_id))

\* C6's case: the next ID stands inside a line of the window and, further on,
\* at the start of the line where the window ends
C6_Witness ==
    /\ pc = "returned"
    /\ cis_id = ID11
    /\ next_id = ID12
    /\ details_text # <<>>
    /\ C6_Occurs(details_text[1], <<"SP">> \o ID12)
    /\ Len(details_text[1]) < Len(C6_Appendix(full_text)) - 1

\* C6 as stated: the window runs from the first literal occurrence of the
\* control's ID up to the first literal occurrence of the next ID after it
\* (to the end of the region with no next ID), so the window does not hold
\* the next ID's text after its own starting ID.
C6_WindowToNextId ==
    (pc = "returned" /\ details_text # <<>>) =>
        LET region == C6_Appendix(full_text)
            w == details_text[1]
            s == Min({r \in 1..Len(region) : StartsWith(region, r, cis_id)})
            nexts == {p \in (s + Len(cis_id))..Len(region) :
                        next_id # <<>> /\ StartsWith(region, p, next_id)}
            e == IF nexts = {} THEN Len(region) + 1 ELSE Min(nexts)
        IN /\ w = SubSeq(region, s, e - 1)
           /\ next_id # <<>> =>
                \A p \in (Len(cis_id) + 1)..Len(w) : ~StartsWith(w, p, next_id)

\* C7: the text of every section found starts right after the section's label
\* and stops at the next label of another of the eight sections behind it in
\* the window, or at the end of the window with no such label; so no extracted
\* text holds the label of another section.
C7_SectionsApart ==
    (pc = "returned" /\ details_text # <<>>) =>
        LET w == details_text[1]
        IN \A k \in 1..Len(DEFAULT_SECTIONS) :
              LET sec == DEFAULT_SECTIONS[k]
                  others == Labels \ {sec.label}
                  at == {s \in 1..Len(w) : w[s] = sec.label}
              IN at # {} =>
                   LET s == Min(at)
                       later == {q \in (s + 1)..Len(w) : w[q] \in others}
                       e == IF later = {} THEN Len(w) + 1 ELSE Min(later)
                   IN /\ sec.key \in DOMAIN details
                      /\ details[sec.key] = Strip(SubSeq(w, s + 1, e - 1))
                      /\ \A q \in 1..Len(details[sec.key]) :
                            details[sec.key][q] \notin others

\* C8: a section's key is in the result exactly when the section's label is
\* in the control's window; the result has no other key; a value has no
\* whitespace at either end; with no window, or with none of the eight labels
\* in the window, the record has the keys id and title alone.
C8_KeysOfLabelsPresent ==
    pc = "returned" =>
        LET in_window(x) == details_text # <<>>
                              /\ \E s \in 1..Len(details_text[1]) :
                                    details_text[1][s] = x
        IN /\ \A k \in 1..Len(DEFAULT_SECTIONS) :
                 (DEFAULT_SECTIONS[k].key \in DOMAIN details)
                    <=> in_window(DEFAULT_SECTIONS[k].label)
           /\ DOMAIN details \subseteq SectionKeys
           /\ \A key \in DOMAIN details :
                 LET v == details[key]
                 IN v = <<>> \/ (v[1] \notin WS /\ v[Len(v)] \notin WS)
           /\ {"id", "title"} \subseteq DOMAIN record
           /\ record.id = cis_id
           /\ (\A x \in Labels : ~in_window(x)) => DOMAIN record = {"id", "title"}

\* C8's case: a window with some of the labels, one of them followed by
\* nothing but whitespace to be trimmed
C8_Witness ==
    /\ pc = "returned"
    /\ details_text # <<>>
    /\ DOMAIN details = {"description", "impact"}
    /\ details["description"] = <<"a">>
    /\ C6_Occurs(details_text[1], <<"Description:", "SP", "a", "SP", "Impact:">>)

====
